---- MODULE Spec2Model ----
(***************************************************************************)
(* Bravo: the mention-driven dispatch loop of the Browser Agent            *)
(* (src/Browser-Agent/main.py) and the text/voice front end of the Voice   *)
(* Agent (src/Voice-Agent/main.py, src/Voice-Agent/utils/coral_agent.py).  *)
(*                                                                         *)
(* SpecBrowser is the Browser Agent's process, SpecVoice the Voice Agent's.*)
(* Each leaves the other program's variables unchanged.                    *)
(***************************************************************************)
EXTENDS Naturals, Sequences, FiniteSets

(***************************************************************************)
(* Bounds of the model (not program constants).                            *)
(***************************************************************************)
\* How many message batches the hub delivers in one run; afterwards every
\* poll returns the "No new messages" sentinel or fails.
MaxDeliveries == 2
\* The longest batch a poll returns.
MaxBatch == 2
\* How many invocations of test.py's executor return in one run.
MaxInvocations == 2

(***************************************************************************)
(* Program constants.                                                      *)
(***************************************************************************)
SLEEP_INTERVAL == 1
ERROR_RETRY_INTERVAL == 5
\* SLEEP_INTERVAL of test.py
TEST_SLEEP_INTERVAL == 2

(***************************************************************************)
(* Python values. A value is None or a string; dict.get of an absent key   *)
(* is None.                                                                *)
(***************************************************************************)
NoneVal == [tag |-> "none", s |-> ""]
StrVal(x) == [tag |-> "str", s |-> x]

\* Python truthiness, as used by `not x` and all([...]).
Truthy(v) == v.tag = "str" /\ v.s # ""

\* str(x): a string is itself, None is the four letters "None".
Str(v) == IF v.tag = "none" THEN "None" ELSE v.s

\* all([thread_id, sender_id, content]); AllFieldsBroken leaves content out.
AllFieldsBroken(thread_id, sender_id, content) == Truthy(thread_id) /\ Truthy(sender_id)
AllFields(thread_id, sender_id, content) ==
    Truthy(thread_id) /\ Truthy(sender_id) /\ Truthy(content)

(***************************************************************************)
(* What the hub and the engine can hand to the loop.                       *)
(***************************************************************************)
ThreadIds == {NoneVal, StrVal(""), StrVal("t1")}
SenderIds == {NoneVal, StrVal("a1")}
Contents == {StrVal(""), StrVal("go to google"), StrVal("say No new messages")}
Messages == [threadId : ThreadIds, senderId : SenderIds, content : Contents]

\* The batches a poll can return: every sequence of at most MaxBatch messages.
Batches == UNION {[1..n -> Messages] : n \in 0..MaxBatch}

\* The answers of wait_for_mentions: the sentinel string, a payload holding a
\* batch of messages, or a payload the parser cannot read. isStr tells whether
\* the answer is a Python str (the sentinel is one); a payload's text holds
\* the text of its messages.
NoNewMessagesResponse == [kind |-> "sentinel", isStr |-> TRUE, msgs |-> <<>>]
Unparsable == [kind |-> "unparsable", isStr |-> TRUE, msgs |-> <<>>]
NoResponse == [kind |-> "none", isStr |-> FALSE, msgs |-> <<>>]
BatchResponse(b, str) == [kind |-> "batch", isStr |-> str, msgs |-> b]

\* "No new messages" in x, on the strings of the model.
ContainsNoNewMessages(x) == x \in {"No new messages", "say No new messages"}

\* "No new messages" in the text of the answer.
TextHasNoNewMessages(resp) ==
    \/ resp.kind = "sentinel"
    \/ \E i \in 1..Len(resp.msgs) : ContainsNoNewMessages(resp.msgs[i].content.s)

\* The values process_agent_query returns.
DispatchResults == {StrVal("Loaded google.com"), StrVal(""), NoneVal}

\* The empty dict test.py starts tool_result with.
EmptyDict == [tag |-> "dict", s |-> ""]

NoMessage == [threadId |-> NoneVal, senderId |-> NoneVal, content |-> NoneVal]

\* Before process_browsing_tools has been called in an invocation.
NoToolCall == [made |-> FALSE]

\* Before call_coral_agent has been called.
NoCall ==
    [made |-> FALSE, arg |-> NoneVal, latest |-> NoneVal, stale |-> FALSE,
     query |-> NoneVal, invoked |-> FALSE, ret |-> ""]

VARIABLES
    pc,                \* position of main() of the Browser Agent (main.py or test.py)
    step,              \* main.py:113, test.py:244
    tool_result,       \* main.py:111, test.py:242
    last_tool_call,    \* main.py:112, test.py:243
    mentions_response, \* main.py:120
    messages,          \* main.py:129
    message,           \* main.py:134
    browser_result,    \* main.py:153
    answer,            \* main.py:164
    \* history of the current iteration (the one begun by the latest poll)
    query,             \* the input_query handed to process_agent_query
    stepArg,           \* the step handed to process_agent_query
    ndispatch,         \* calls of process_agent_query
    inflight,          \* calls of process_agent_query that have not returned
    sent,              \* the send_message calls, in order
    slept,             \* the asyncio.sleep durations, in order
    faultAt,           \* where the latest answered poll's iteration raised, or ""
    nlogged,           \* logger.error calls of the except clause
    delivered,         \* batches the hub has delivered so far
    exitCode,          \* the process's exit status once it has exited
    \* history of the whole run
    dispatched,        \* calls of process_agent_query since the process started
    replied,           \* for each answer sent, the number of the dispatch it answers
    toolCall           \* the latest call of test.py's process_browsing_tools

bvars == <<pc, step, tool_result, last_tool_call, mentions_response, messages,
           message, browser_result, answer, query, stepArg, ndispatch, inflight,
           sent, slept, faultAt, nlogged, delivered, exitCode, dispatched,
           replied, toolCall>>

(***************************************************************************)
(* The Voice Agent: main() on the main thread, and the voice provider's    *)
(* tool thread, which runs the registered call_coral_agent handler.        *)
(***************************************************************************)
VARIABLES
    vpc,               \* position of main() of the Voice Agent
    vExitCode,         \* the process's exit status once it has exited
    latest_transcript, \* ConversationManager.latest_transcript
    history,           \* CoralAgent.history, a deque(maxlen=3)
    session,           \* the voice session: "none", "active" or "ended"
    endReason,         \* why the latest session ended
    endCalls,          \* conversation.end_session calls on the latest conversation
    handler,           \* whether handle_interrupt's SIGINT handler is installed
    mInput,            \* coral_agent_input of the main thread's call
    mOut,              \* what the main thread's latest call returned
    tpc,               \* the tool thread: "idle" or "invoking"
    tInput,            \* coral_agent_input of the tool thread's call
    tOut,              \* what the tool thread's latest call returned
    engine,            \* the threads whose agent_executor.ainvoke has not returned
    interrupts,        \* SIGINTs the operator has sent so far
    \* history of the run
    stale,             \* latest_transcript was recognised in a session that has ended
    lastCall,          \* the latest call of call_coral_agent, as it began
    evicted,           \* the entry the deque dropped last, or None
    \* coral_agent.py run as a program
    rpc,               \* position of CoralAgent.run
    rInput,            \* input_query of CoralAgent.run
    quitInput          \* the user_input that ended main()'s loop, once it has

vvars == <<vpc, vExitCode, latest_transcript, history, session, endReason,
           endCalls, handler, mInput, mOut, tpc, tInput, tOut, engine, interrupts,
           stale, lastCall, evicted, rpc, rInput, quitInput>>

vars == <<bvars, vvars>>

VoiceInit ==
    /\ vpc = "startup"
    /\ vExitCode = 0
    /\ latest_transcript = NoneVal
    /\ history = <<>>
    /\ session = "none"
    /\ endReason = ""
    /\ endCalls = 0
    /\ handler = FALSE
    /\ mInput = NoneVal
    /\ mOut = ""
    /\ tpc = "idle"
    /\ tInput = NoneVal
    /\ tOut = ""
    /\ engine = {}
    /\ interrupts = 0
    /\ stale = FALSE
    /\ lastCall = NoCall
    /\ evicted = NoneVal
    /\ rpc = "startup"
    /\ rInput = ""
    /\ quitInput = NoneVal

BrowserInit ==
    /\ pc = "startup"
    /\ step = 0
    /\ tool_result = NoneVal
    /\ last_tool_call = NoneVal
    /\ mentions_response = NoResponse
    /\ messages = <<>>
    /\ message = NoMessage
    /\ browser_result = NoneVal
    /\ answer = ""
    /\ query = NoneVal
    /\ stepArg = 0
    /\ ndispatch = 0
    /\ inflight = 0
    /\ sent = <<>>
    /\ slept = <<>>
    /\ faultAt = ""
    /\ nlogged = 0
    /\ delivered = 0
    /\ exitCode = 0
    /\ dispatched = 0
    /\ replied = <<>>
    /\ toolCall = NoToolCall


(***************************************************************************)
(* Pure helpers of the Browser Agent's loop.                               *)
(***************************************************************************)
\* isinstance(mentions_response, str) and "No new messages" in mentions_response
IsNoNewMessages(resp) == resp.isStr /\ TextHasNoNewMessages(resp)

\* not messages or not messages[0].get('threadId'); SkipBatchEmptyOnly is
\* `not messages` alone.
SkipBatchEmptyOnly(msgs) == msgs = <<>>
SkipBatch(msgs) == msgs = <<>> \/ ~Truthy(msgs[1].threadId)

\* message = messages[0]; LeadLast takes messages[-1] instead.
LeadLast(msgs) == msgs[Len(msgs)]
Lead(msgs) == msgs[1]

\* the send_message call of the missing-fields branch
MissingFieldsReply(thread_id, sender_id) ==
    [threadId |-> thread_id,
     content  |-> "Error: Missing message fields",
     mentions |-> <<sender_id>>]

\* the send_message call that carries the answer; AnswerReplyNoMention
\* mentions nobody.
AnswerReplyNoMention(thread_id, sender_id, ans) ==
    [threadId |-> thread_id, content |-> ans, mentions |-> <<>>]
AnswerReply(thread_id, sender_id, ans) ==
    [threadId |-> thread_id, content |-> ans, mentions |-> <<sender_id>>]

\* The locals of one iteration are dead at the top of the loop body (each is
\* assigned before it is read again), and the history of an iteration ends
\* where the next poll is issued.
ResetIteration ==
    /\ mentions_response' = NoResponse
    /\ messages' = <<>>
    /\ message' = NoMessage
    /\ browser_result' = NoneVal
    /\ answer' = ""
    /\ query' = NoneVal
    /\ stepArg' = 0
    /\ ndispatch' = 0
    /\ sent' = <<>>
    /\ slept' = <<>>
    /\ nlogged' = 0

EnvValues == {NoneVal, StrVal(""), StrVal("set")}

(***************************************************************************)
(* main() of the Browser Agent.                                            *)
(***************************************************************************)
\* Configuration and initialisation, up to the first iteration. An exception
\* here leaves asyncio.run(main()) and ends the process with status 1.
Startup ==
    /\ pc = "startup"
    /\ \E base_url \in EnvValues, agent_id \in EnvValues, initOk \in BOOLEAN :
          IF Truthy(base_url) /\ Truthy(agent_id) /\ initOk
          THEN pc' = "idle" /\ exitCode' = 0
          ELSE pc' = "exited" /\ exitCode' = 1
    /\ UNCHANGED <<step, tool_result, last_tool_call, mentions_response, messages,
                   message, browser_result, answer, query, stepArg, ndispatch,
                   inflight, sent, slept, faultAt, nlogged, delivered>>
    /\ UNCHANGED <<dispatched, replied>>
    /\ UNCHANGED toolCall
    /\ UNCHANGED vvars

\* The top of the loop body: get_resources and wait_for_mentions are called.
\* IssuePollResetsStep has step = 0 inside the loop body.
IssuePollResetsStep ==
    /\ pc = "idle"
    /\ ResetIteration
    /\ step' = 0
    /\ pc' = "polling"
    /\ UNCHANGED <<tool_result, last_tool_call, inflight, faultAt,
                   delivered, exitCode>>
    /\ UNCHANGED <<dispatched, replied>>
    /\ UNCHANGED toolCall
    /\ UNCHANGED vvars
IssuePoll ==
    /\ pc = "idle"
    /\ ResetIteration
    /\ pc' = "polling"
    /\ UNCHANGED <<step, tool_result, last_tool_call, inflight, faultAt,
                   delivered, exitCode>>
    /\ UNCHANGED <<dispatched, replied>>
    /\ UNCHANGED toolCall
    /\ UNCHANGED vvars

\* The poll answers or raises.
PollReturns ==
    /\ pc = "polling"
    /\ \/ /\ faultAt' = "poll"
          /\ pc' = "fault"
          /\ UNCHANGED <<mentions_response, delivered>>
       \/ /\ mentions_response' = NoNewMessagesResponse
          /\ faultAt' = ""
          /\ pc' = "polled"
          /\ UNCHANGED delivered
       \/ /\ delivered < MaxDeliveries
          /\ \E resp \in {BatchResponse(b, str) : b \in Batches, str \in BOOLEAN}
                           \cup {Unparsable} :
                mentions_response' = resp
          /\ delivered' = delivered + 1
          /\ faultAt' = ""
          /\ pc' = "polled"
    /\ UNCHANGED <<step, tool_result, last_tool_call, messages, message,
                   browser_result, answer, query, stepArg, ndispatch, inflight,
                   sent, slept, nlogged, exitCode>>
    /\ UNCHANGED <<dispatched, replied>>
    /\ UNCHANGED toolCall
    /\ UNCHANGED vvars

\* if ... "No new messages" in mentions_response: sleep; continue.
\* NoNewMessagesNoSleep continues without the sleep.
NoNewMessagesNoSleep ==
    /\ pc = "polled"
    /\ IsNoNewMessages(mentions_response)
    /\ pc' = "idle"
    /\ UNCHANGED <<step, tool_result, last_tool_call, mentions_response, messages,
                   message, browser_result, answer, query, stepArg, ndispatch,
                   inflight, sent, slept, faultAt, nlogged, delivered, exitCode>>
    /\ UNCHANGED <<dispatched, replied>>
    /\ UNCHANGED toolCall
    /\ UNCHANGED vvars
NoNewMessages ==
    /\ pc = "polled"
    /\ IsNoNewMessages(mentions_response)
    /\ pc' = "sleep"
    /\ UNCHANGED <<step, tool_result, last_tool_call, mentions_response, messages,
                   message, browser_result, answer, query, stepArg, ndispatch,
                   inflight, sent, slept, faultAt, nlogged, delivered, exitCode>>
    /\ UNCHANGED <<dispatched, replied>>
    /\ UNCHANGED toolCall
    /\ UNCHANGED vvars

\* parse_mentions_response, the empty-batch guard, message = messages[0] and
\* the missing-fields test.
Validate ==
    /\ pc = "polled"
    /\ ~IsNoNewMessages(mentions_response)
    /\ IF mentions_response.kind = "unparsable"
       THEN /\ faultAt' = "parse"
            /\ pc' = "fault"
            /\ UNCHANGED <<messages, message>>
       ELSE LET msgs == mentions_response.msgs
            IN  /\ messages' = msgs
                /\ UNCHANGED faultAt
                /\ IF SkipBatch(msgs)
                   THEN pc' = "sleep" /\ UNCHANGED message
                   ELSE LET m == Lead(msgs)
                        IN  /\ message' = m
                            /\ pc' = IF AllFields(m.threadId, m.senderId, m.content)
                                     THEN "dispatch"
                                     ELSE "notify"
    /\ UNCHANGED <<step, tool_result, last_tool_call, mentions_response,
                   browser_result, answer, query, stepArg, ndispatch, inflight,
                   sent, slept, nlogged, delivered, exitCode>>
    /\ UNCHANGED <<dispatched, replied>>
    /\ UNCHANGED toolCall
    /\ UNCHANGED vvars

\* The missing-fields branch: one send_message, which returns or raises.
Notify ==
    /\ pc = "notify"
    /\ sent' = Append(sent, MissingFieldsReply(message.threadId, message.senderId))
    /\ \E ok \in BOOLEAN :
          IF ok THEN pc' = "sleep" /\ UNCHANGED faultAt
                ELSE pc' = "fault" /\ faultAt' = "send"
    /\ UNCHANGED <<step, tool_result, last_tool_call, mentions_response, messages,
                   message, browser_result, answer, query, stepArg, ndispatch,
                   inflight, slept, nlogged, delivered, exitCode>>
    /\ UNCHANGED <<dispatched, replied>>
    /\ UNCHANGED toolCall
    /\ UNCHANGED vvars

\* input_query = content; process_agent_query(...) is called.
Dispatch ==
    /\ pc = "dispatch"
    /\ query' = message.content
    /\ stepArg' = step
    /\ ndispatch' = ndispatch + 1
    /\ dispatched' = dispatched + 1
    /\ inflight' = inflight + 1
    /\ pc' = "dispatching"
    /\ UNCHANGED <<step, tool_result, last_tool_call, mentions_response, messages,
                   message, browser_result, answer, sent, slept, faultAt, nlogged,
                   delivered, exitCode, replied>>
    /\ UNCHANGED toolCall
    /\ UNCHANGED vvars

\* process_agent_query returns: step += 1; answer = str(browser_result)
\* DispatchReturnsKeepsResult also keeps the result for the next dispatch.
DispatchReturnsKeepsResult ==
    /\ pc = "dispatching"
    /\ \E r \in DispatchResults :
          /\ browser_result' = r
          /\ answer' = Str(r)
          /\ tool_result' = r
    /\ step' = step + 1
    /\ inflight' = inflight - 1
    /\ pc' = "replying"
    /\ UNCHANGED <<last_tool_call, mentions_response, messages,
                   message, query, stepArg, ndispatch, sent, slept, faultAt,
                   nlogged, delivered, exitCode>>
    /\ UNCHANGED <<dispatched, replied>>
    /\ UNCHANGED toolCall
    /\ UNCHANGED vvars
DispatchReturns ==
    /\ pc = "dispatching"
    /\ \E r \in DispatchResults :
          /\ browser_result' = r
          /\ answer' = Str(r)
    /\ step' = step + 1
    /\ inflight' = inflight - 1
    /\ pc' = "replying"
    /\ UNCHANGED <<tool_result, last_tool_call, mentions_response, messages,
                   message, query, stepArg, ndispatch, sent, slept, faultAt,
                   nlogged, delivered, exitCode>>
    /\ UNCHANGED <<dispatched, replied>>
    /\ UNCHANGED toolCall
    /\ UNCHANGED vvars

\* process_agent_query raises: control goes to the except clause.
\* DispatchRaisesBumpsStep counts the failed dispatch as a step.
DispatchRaisesBumpsStep ==
    /\ pc = "dispatching"
    /\ step' = step + 1
    /\ inflight' = inflight - 1
    /\ faultAt' = "dispatch"
    /\ pc' = "fault"
    /\ UNCHANGED <<tool_result, last_tool_call, mentions_response, messages,
                   message, browser_result, answer, query, stepArg, ndispatch,
                   sent, slept, nlogged, delivered, exitCode>>
    /\ UNCHANGED <<dispatched, replied>>
    /\ UNCHANGED toolCall
    /\ UNCHANGED vvars
DispatchRaises ==
    /\ pc = "dispatching"
    /\ inflight' = inflight - 1
    /\ faultAt' = "dispatch"
    /\ pc' = "fault"
    /\ UNCHANGED <<step, tool_result, last_tool_call, mentions_response, messages,
                   message, browser_result, answer, query, stepArg, ndispatch,
                   sent, slept, nlogged, delivered, exitCode>>
    /\ UNCHANGED <<dispatched, replied>>
    /\ UNCHANGED toolCall
    /\ UNCHANGED vvars

\* The send_message call with the answer, which returns or raises.
Reply ==
    /\ pc = "replying"
    /\ sent' = Append(sent, AnswerReply(message.threadId, message.senderId, answer))
    /\ replied' = Append(replied, dispatched)
    /\ \E ok \in BOOLEAN :
          IF ok THEN pc' = "sleep" /\ UNCHANGED faultAt
                ELSE pc' = "fault" /\ faultAt' = "send"
    /\ UNCHANGED <<step, tool_result, last_tool_call, mentions_response, messages,
                   message, browser_result, answer, query, stepArg, ndispatch,
                   inflight, slept, nlogged, delivered, exitCode, dispatched>>
    /\ UNCHANGED toolCall
    /\ UNCHANGED vvars

\* await asyncio.sleep(SLEEP_INTERVAL), then the top of the loop.
Sleep ==
    /\ pc = "sleep"
    /\ slept' = Append(slept, SLEEP_INTERVAL)
    /\ pc' = "idle"
    /\ UNCHANGED <<step, tool_result, last_tool_call, mentions_response, messages,
                   message, browser_result, answer, query, stepArg, ndispatch,
                   inflight, sent, faultAt, nlogged, delivered, exitCode>>
    /\ UNCHANGED <<dispatched, replied>>
    /\ UNCHANGED toolCall
    /\ UNCHANGED vvars

\* except Exception: logger.error, logger.debug, then the top of the loop.
\* HandleFaultExits lets the exception leave main() instead.
HandleFaultExits ==
    /\ pc = "fault"
    /\ nlogged' = nlogged + 1
    /\ pc' = "exited"
    /\ exitCode' = 1
    /\ UNCHANGED <<step, tool_result, last_tool_call, mentions_response, messages,
                   message, browser_result, answer, query, stepArg, ndispatch,
                   inflight, sent, slept, faultAt, delivered>>
    /\ UNCHANGED <<dispatched, replied>>
    /\ UNCHANGED toolCall
    /\ UNCHANGED vvars
HandleFault ==
    /\ pc = "fault"
    /\ nlogged' = nlogged + 1
    /\ pc' = "idle"
    /\ UNCHANGED <<step, tool_result, last_tool_call, mentions_response, messages,
                   message, browser_result, answer, query, stepArg, ndispatch,
                   inflight, sent, slept, faultAt, delivered, exitCode>>
    /\ UNCHANGED <<dispatched, replied>>
    /\ UNCHANGED toolCall
    /\ UNCHANGED vvars

(***************************************************************************)
(* main() of test.py, the Browser Agent run as an agent executor.          *)
(***************************************************************************)
\* Configuration and initialisation of test.py, up to its loop.
TestStartup ==
    /\ pc = "startup"
    /\ \E base_url \in EnvValues, agent_id \in EnvValues, initOk \in BOOLEAN :
          IF Truthy(base_url) /\ Truthy(agent_id) /\ initOk
          THEN /\ pc' = "t_idle"
               /\ exitCode' = 0
               /\ tool_result' = EmptyDict
               /\ last_tool_call' = StrVal("")
          ELSE /\ pc' = "exited"
               /\ exitCode' = 1
               /\ UNCHANGED <<tool_result, last_tool_call>>
    /\ UNCHANGED <<step, mentions_response, messages, message, browser_result,
                   answer, query, stepArg, ndispatch, inflight, sent, slept,
                   faultAt, nlogged, delivered, dispatched, replied>>
    /\ UNCHANGED toolCall
    /\ UNCHANGED vvars

\* The top of test.py's loop body: agent_executor.ainvoke is called.
TestInvoke ==
    /\ pc = "t_idle"
    /\ step < MaxInvocations
    /\ ResetIteration
    /\ toolCall' = NoToolCall
    /\ pc' = "t_invoking"
    /\ UNCHANGED <<step, tool_result, last_tool_call, inflight, faultAt,
                   delivered, exitCode, dispatched, replied>>
    /\ UNCHANGED vvars

\* What process_browsing_tools returns. The message of the except branch is
\* "Failed to process browser query: " followed by str(e).
NotInitialized == [error |-> "Browser agent or session not initialized"]
SuccessSameStep(result, s) ==
    [status |-> "success", result |-> result, step |-> s]
Success(result, s) ==
    [status |-> "success", result |-> result, step |-> s + 1]
Failure(e) ==
    [status |-> "error", message |-> "Failed to process browser query: " \o e]

\* str(e) of the exceptions process_agent_query raises.
EngineErrors == {"", "timeout"}

\* The executor calls the tool process_browsing_tools during an invocation,
\* with a step of its choosing: the whole function, from the guard on
\* agent_chain and session to one of its three returns.
ProcessBrowsingTools ==
    /\ pc = "t_invoking"
    /\ \E s \in 0..MaxInvocations, chain \in BOOLEAN, session_ \in BOOLEAN :
          IF ~chain \/ ~session_
          THEN toolCall' = [made |-> TRUE, step |-> s, chain |-> chain,
                            session |-> session_, invoked |-> FALSE,
                            raised |-> FALSE, result |-> NoneVal,
                            ret |-> NotInitialized]
          ELSE \/ \E r \in DispatchResults :
                     toolCall' = [made |-> TRUE, step |-> s, chain |-> chain,
                                  session |-> session_, invoked |-> TRUE,
                                  raised |-> FALSE, result |-> r,
                                  ret |-> Success(r, s)]
               \/ \E e \in EngineErrors :
                     toolCall' = [made |-> TRUE, step |-> s, chain |-> chain,
                                  session |-> session_, invoked |-> TRUE,
                                  raised |-> TRUE, result |-> NoneVal,
                                  ret |-> Failure(e)]
    /\ UNCHANGED <<pc, step, tool_result, last_tool_call, mentions_response,
                   messages, message, browser_result, answer, query, stepArg,
                   ndispatch, inflight, sent, slept, faultAt, nlogged, delivered,
                   exitCode, dispatched, replied>>
    /\ UNCHANGED vvars

\* ainvoke returns: step += 1, then the sleep.
TestInvokeReturns ==
    /\ pc = "t_invoking"
    /\ step' = step + 1
    /\ faultAt' = ""
    /\ pc' = "t_sleep"
    /\ UNCHANGED <<tool_result, last_tool_call, mentions_response, messages,
                   message, browser_result, answer, query, stepArg, ndispatch,
                   inflight, sent, slept, nlogged, delivered, exitCode,
                   dispatched, replied>>
    /\ UNCHANGED toolCall
    /\ UNCHANGED vvars

\* ainvoke raises: except Exception logs twice, then the sleep.
\* TestInvokeRaisesNoSleep goes back to the top of the loop at once.
TestInvokeRaisesNoSleep ==
    /\ pc = "t_invoking"
    /\ faultAt' = "invoke"
    /\ nlogged' = nlogged + 2
    /\ pc' = "t_idle"
    /\ UNCHANGED <<step, tool_result, last_tool_call, mentions_response, messages,
                   message, browser_result, answer, query, stepArg, ndispatch,
                   inflight, sent, slept, delivered, exitCode, dispatched,
                   replied>>
    /\ UNCHANGED toolCall
    /\ UNCHANGED vvars
TestInvokeRaises ==
    /\ pc = "t_invoking"
    /\ faultAt' = "invoke"
    /\ nlogged' = nlogged + 2
    /\ pc' = "t_sleep"
    /\ UNCHANGED <<step, tool_result, last_tool_call, mentions_response, messages,
                   message, browser_result, answer, query, stepArg, ndispatch,
                   inflight, sent, slept, delivered, exitCode, dispatched,
                   replied>>
    /\ UNCHANGED toolCall
    /\ UNCHANGED vvars

\* await asyncio.sleep(SLEEP_INTERVAL) of either branch, then the top of the
\* loop.
TestSleep ==
    /\ pc = "t_sleep"
    /\ slept' = Append(slept, TEST_SLEEP_INTERVAL)
    /\ pc' = "t_idle"
    /\ UNCHANGED <<step, tool_result, last_tool_call, mentions_response, messages,
                   message, browser_result, answer, query, stepArg, ndispatch,
                   inflight, sent, faultAt, nlogged, delivered, exitCode,
                   dispatched, replied>>
    /\ UNCHANGED toolCall
    /\ UNCHANGED vvars

BNext ==
    \/ Startup
    \/ IssuePoll
    \/ PollReturns
    \/ NoNewMessages
    \/ Validate
    \/ Notify
    \/ Dispatch
    \/ DispatchReturns
    \/ DispatchRaises
    \/ Reply
    \/ Sleep
    \/ HandleFault
    \/ TestStartup
    \/ TestInvoke
    \/ ProcessBrowsingTools
    \/ TestInvokeReturns
    \/ TestInvokeRaises
    \/ TestSleep

Init == BrowserInit /\ VoiceInit

SpecBrowser == Init /\ [][BNext]_vars

\* The event loop resumes the coroutine whenever it can run: the loop's own
\* steps are taken. Nothing is assumed of the hub or the engine answering.
FairSpecBrowser ==
    /\ SpecBrowser
    /\ WF_vars(IssuePoll)
    /\ WF_vars(HandleFault)
    /\ WF_vars(Sleep)
    /\ WF_vars(NoNewMessages)
    /\ WF_vars(Validate)

(***************************************************************************)
(* The Voice Agent: strings, inputs and the history deque.                 *)
(***************************************************************************)
\* SIGINTs the operator sends in one run (a bound of the model).
MaxInterrupts == 1

\* deque(maxlen=3)
HistoryMaxLen == 3

\* str.strip() on the strings of the model.
Strip(x) ==
    CASE x = "   " -> ""
      [] x = " click store " -> "click store"
      [] x = " scroll down " -> "scroll down"
      [] OTHER -> x

\* str.lower() on the strings of the model.
Lower(x) ==
    CASE x = "QUIT" -> "quit"
      [] x = "V" -> "v"
      [] OTHER -> x

\* What the operator types at the prompt.
RawInputs == {"quit", "QUIT", "v", "", "   ", " click store "}

\* What the speech provider recognises (callback_user_transcript).
Transcripts == {StrVal("   "), StrVal(" scroll down ")}

\* The "transcript" entry of the parameters of a voice tool call; None is a
\* dict without the key.
ToolParams == {NoneVal, StrVal(""), StrVal(" scroll down ")}

\* input_text.get("transcript", "")
FromDict(p) == IF p.tag = "none" THEN StrVal("") ELSE p

\* result.get("output", "No response from CoralAgent")
EngineOutputs == {"Done", "No response from CoralAgent"}

NoInputSentinel == "Error: No valid input or transcript available"
\* f"Error in CoralAgent: {str(e)}"; EngineErrorOutputBare is str(e) alone.
EngineErrorOutputBare == "engine failed"
EngineErrorOutput == "Error in CoralAgent: engine failed"

\* call_coral_agent's choice of coral_agent_input; None when it returns the
\* no-valid-input sentinel instead.
\* SelectInputTranscriptFirst tries the transcript before the argument.
SelectInputTranscriptFirst(input_text, latest) ==
    IF Truthy(latest) /\ Strip(latest.s) # ""
    THEN StrVal(Strip(latest.s))
    ELSE IF Truthy(input_text) /\ Strip(input_text.s) # ""
         THEN StrVal(Strip(input_text.s))
         ELSE NoneVal
SelectInput(input_text, latest) ==
    IF Truthy(input_text) /\ Strip(input_text.s) # ""
    THEN StrVal(Strip(input_text.s))
    ELSE IF Truthy(latest) /\ Strip(latest.s) # ""
         THEN StrVal(Strip(latest.s))
         ELSE NoneVal

\* deque.append with maxlen: a full deque drops its oldest entry.
\* DequeAppendDropsNewest drops the newest entry of a full deque instead.
DequeAppendDropsNewest(h, x) ==
    IF Len(h) < HistoryMaxLen
    THEN Append(h, x)
    ELSE Append(SubSeq(h, 1, HistoryMaxLen - 1), x)
DequeAppend(h, x) ==
    IF Len(h) < HistoryMaxLen THEN Append(h, x) ELSE Append(Tail(h), x)

\* What a full deque drops on the next append: its leftmost entry.
Dropped(h, last) == IF Len(h) = HistoryMaxLen THEN StrVal(h[1]) ELSE last

\* A call of call_coral_agent as it began: the value of input_text (None is a
\* dict without "transcript"), latest_transcript as the call read it and
\* whether that transcript was stale, the coral_agent_input it chose, whether
\* it went on to agent_executor.ainvoke, and what it returned at once.
CallRecord(input_text, latest, isStale, chosen) ==
    [made    |-> TRUE,
     arg     |-> input_text,
     latest  |-> latest,
     stale   |-> isStale,
     query   |-> chosen,
     invoked |-> chosen # NoneVal,
     ret     |-> IF chosen = NoneVal THEN NoInputSentinel ELSE ""]

(***************************************************************************)
(* main() of the Voice Agent, on the main thread.                          *)
(***************************************************************************)
\* load_environment, the three-variable check, ConversationManager() (whose
\* CoralAgent() raises SystemExit when it cannot initialise) and
\* setup_client_tools.
VStartup ==
    /\ vpc = "startup"
    /\ rpc = "startup"
    /\ \E coral_agent_id \in EnvValues, elevenlabs_agent_id \in EnvValues,
          elevenlabs_api_key \in EnvValues, initOk \in BOOLEAN :
          IF ~(Truthy(coral_agent_id) /\ Truthy(elevenlabs_agent_id)
               /\ Truthy(elevenlabs_api_key))
          THEN vpc' = "exited" /\ vExitCode' = 0
          ELSE IF ~initOk
               THEN vpc' = "exited" /\ vExitCode' = 1
               ELSE vpc' = "prompt" /\ vExitCode' = 0
    /\ UNCHANGED <<latest_transcript, history, session, endReason, endCalls,
                   handler, mInput, mOut, tpc, tInput, tOut, engine, interrupts>>
    /\ UNCHANGED <<stale, lastCall, evicted>>
    /\ UNCHANGED <<rpc, rInput>>
    /\ UNCHANGED quitInput
    /\ UNCHANGED bvars

\* user_input = input(...).strip() and the four branches on it. A text query
\* enters call_coral_agent, up to the start of agent_executor.ainvoke.
VReadInput ==
    /\ vpc = "prompt"
    /\ \E raw \in RawInputs :
          LET user_input == Strip(raw)
              chosen == SelectInput(StrVal(user_input), latest_transcript)
          IN  IF Lower(user_input) = "quit"
              THEN /\ vpc' = "exited"
                   /\ quitInput' = StrVal(user_input)
                   /\ UNCHANGED <<mInput, mOut, engine, lastCall>>
              ELSE IF Lower(user_input) = "v"
              THEN /\ vpc' = "voice_init"
                   /\ UNCHANGED <<mInput, mOut, engine, lastCall, quitInput>>
              ELSE IF user_input # ""
              THEN /\ lastCall' = CallRecord(StrVal(user_input),
                                             latest_transcript, stale, chosen)
                   /\ IF chosen = NoneVal
                      THEN /\ mOut' = NoInputSentinel
                           /\ vpc' = "prompt"
                           /\ UNCHANGED <<mInput, engine>>
                      ELSE /\ mInput' = chosen
                           /\ engine' = engine \cup {"main"}
                           /\ vpc' = "calling"
                           /\ UNCHANGED mOut
                   /\ UNCHANGED quitInput
              ELSE /\ vpc' = "prompt"
                   /\ UNCHANGED <<mInput, mOut, engine, lastCall, quitInput>>
    /\ UNCHANGED <<vExitCode, latest_transcript, history, session, endReason,
                   endCalls, handler, tpc, tInput, tOut, interrupts>>
    /\ UNCHANGED <<stale, evicted>>
    /\ UNCHANGED <<rpc, rInput>>
    /\ UNCHANGED bvars

\* The main thread's ainvoke returns: the output is taken and the query is
\* appended to the history.
VCallReturns ==
    /\ vpc = "calling"
    /\ \E out \in EngineOutputs : mOut' = out
    /\ history' = DequeAppend(history, mInput.s)
    /\ evicted' = Dropped(history, evicted)
    /\ engine' = engine \ {"main"}
    /\ vpc' = "prompt"
    /\ UNCHANGED <<vExitCode, latest_transcript, session, endReason, endCalls,
                   handler, mInput, tpc, tInput, tOut, interrupts>>
    /\ UNCHANGED <<stale, lastCall>>
    /\ UNCHANGED <<rpc, rInput>>
    /\ UNCHANGED quitInput
    /\ UNCHANGED bvars

\* The main thread's ainvoke raises: except Exception turns it into a string.
\* VCallRaisesAppends appends the query to the history all the same.
VCallRaisesAppends ==
    /\ vpc = "calling"
    /\ mOut' = EngineErrorOutput
    /\ history' = DequeAppend(history, mInput.s)
    /\ evicted' = Dropped(history, evicted)
    /\ engine' = engine \ {"main"}
    /\ vpc' = "prompt"
    /\ UNCHANGED <<vExitCode, latest_transcript, session, endReason,
                   endCalls, handler, mInput, tpc, tInput, tOut, interrupts>>
    /\ UNCHANGED <<stale, lastCall>>
    /\ UNCHANGED <<rpc, rInput>>
    /\ UNCHANGED quitInput
    /\ UNCHANGED bvars
VCallRaises ==
    /\ vpc = "calling"
    /\ mOut' = EngineErrorOutput
    /\ engine' = engine \ {"main"}
    /\ vpc' = "prompt"
    /\ UNCHANGED <<vExitCode, latest_transcript, history, session, endReason,
                   endCalls, handler, mInput, tpc, tInput, tOut, interrupts>>
    /\ UNCHANGED <<stale, lastCall, evicted>>
    /\ UNCHANGED <<rpc, rInput>>
    /\ UNCHANGED quitInput
    /\ UNCHANGED bvars

\* run_voice_session up to wait_for: initialize_conversation, handle_interrupt
\* (the SIGINT handler now ends this conversation) and start_session, which
\* starts the session or raises into except Exception. When
\* initialize_conversation itself raises, no conversation exists and the
\* exception reaches main()'s except Exception.
VStartVoice ==
    /\ vpc = "voice_init"
    /\ \E outcome \in {"started", "start_raises", "init_raises"} :
          CASE outcome = "started" ->
                 /\ handler' = TRUE
                 /\ session' = "active"
                 /\ endReason' = ""
                 /\ endCalls' = 0
                 /\ vpc' = "waiting"
            [] outcome = "start_raises" ->
                 /\ handler' = TRUE
                 /\ session' = "ended"
                 /\ endReason' = "Errored"
                 /\ endCalls' = 1
                 /\ vpc' = "prompt"
            [] outcome = "init_raises" ->
                 /\ vpc' = "prompt"
                 /\ UNCHANGED <<handler, session, endReason, endCalls>>
    /\ UNCHANGED <<vExitCode, latest_transcript, history, mInput, mOut, tpc,
                   tInput, tOut, engine, interrupts>>
    /\ UNCHANGED <<stale, lastCall, evicted>>
    /\ UNCHANGED <<rpc, rInput>>
    /\ UNCHANGED quitInput
    /\ UNCHANGED bvars

\* wait_for_session_end returns before the deadline.
\* VSessionCompletedEnds calls end_session on the way out.
VSessionCompletedEnds ==
    /\ vpc = "waiting"
    /\ session' = "ended"
    /\ endReason' = "Completed"
    /\ stale' = (latest_transcript # NoneVal)
    /\ endCalls' = endCalls + 1
    /\ vpc' = "prompt"
    /\ UNCHANGED <<vExitCode, latest_transcript, history, handler,
                   mInput, mOut, tpc, tInput, tOut, engine, interrupts>>
    /\ UNCHANGED <<lastCall, evicted>>
    /\ UNCHANGED <<rpc, rInput>>
    /\ UNCHANGED quitInput
    /\ UNCHANGED bvars
VSessionCompleted ==
    /\ vpc = "waiting"
    /\ session' = "ended"
    /\ endReason' = "Completed"
    /\ stale' = (latest_transcript # NoneVal)
    /\ vpc' = "prompt"
    /\ UNCHANGED <<vExitCode, latest_transcript, history, endCalls, handler,
                   mInput, mOut, tpc, tInput, tOut, engine, interrupts>>
    /\ UNCHANGED <<lastCall, evicted>>
    /\ UNCHANGED <<rpc, rInput>>
    /\ UNCHANGED quitInput
    /\ UNCHANGED bvars

\* The 120 s deadline passes: except asyncio.TimeoutError ends the session.
\* VTimeoutLeavesSession returns to the prompt without ending it.
VTimeoutLeavesSession ==
    /\ vpc = "waiting"
    /\ vpc' = "prompt"
    /\ UNCHANGED <<vExitCode, latest_transcript, history, session, endReason,
                   endCalls, handler, mInput, mOut, tpc, tInput, tOut, engine,
                   interrupts>>
    /\ UNCHANGED <<stale, lastCall, evicted>>
    /\ UNCHANGED <<rpc, rInput>>
    /\ UNCHANGED quitInput
    /\ UNCHANGED bvars
VTimeout ==
    /\ vpc = "waiting"
    /\ session' = "ended"
    /\ endReason' = "TimedOut"
    /\ stale' = (latest_transcript # NoneVal)
    /\ endCalls' = endCalls + 1
    /\ vpc' = "prompt"
    /\ UNCHANGED <<vExitCode, latest_transcript, history, handler, mInput, mOut,
                   tpc, tInput, tOut, engine, interrupts>>
    /\ UNCHANGED <<lastCall, evicted>>
    /\ UNCHANGED <<rpc, rInput>>
    /\ UNCHANGED quitInput
    /\ UNCHANGED bvars

\* The wait raises another exception: except Exception ends the session.
\* VSessionErrorExits lets the exception end the process instead.
VSessionErrorExits ==
    /\ vpc = "waiting"
    /\ session' = "ended"
    /\ endReason' = "Errored"
    /\ stale' = (latest_transcript # NoneVal)
    /\ endCalls' = endCalls + 1
    /\ vpc' = "exited"
    /\ vExitCode' = 1
    /\ UNCHANGED <<latest_transcript, history, handler, mInput, mOut,
                   tpc, tInput, tOut, engine, interrupts>>
    /\ UNCHANGED <<lastCall, evicted>>
    /\ UNCHANGED <<rpc, rInput>>
    /\ UNCHANGED quitInput
    /\ UNCHANGED bvars
VSessionError ==
    /\ vpc = "waiting"
    /\ session' = "ended"
    /\ endReason' = "Errored"
    /\ stale' = (latest_transcript # NoneVal)
    /\ endCalls' = endCalls + 1
    /\ vpc' = "prompt"
    /\ UNCHANGED <<vExitCode, latest_transcript, history, handler, mInput, mOut,
                   tpc, tInput, tOut, engine, interrupts>>
    /\ UNCHANGED <<lastCall, evicted>>
    /\ UNCHANGED <<rpc, rInput>>
    /\ UNCHANGED quitInput
    /\ UNCHANGED bvars

\* SIGINT while main() is at the prompt, in a text call or in a voice session.
\* The installed handler ends the latest conversation and raises
\* KeyboardInterrupt; without it Python raises KeyboardInterrupt itself. Either
\* way an except KeyboardInterrupt clause returns main() to the prompt, and a
\* call the main thread was in is abandoned.
\* VInterruptExits lets the KeyboardInterrupt leave main() instead.
VInterruptExits ==
    /\ vpc \in {"prompt", "calling", "waiting"}
    /\ interrupts < MaxInterrupts
    /\ interrupts' = interrupts + 1
    /\ endCalls' = IF handler THEN endCalls + 1 ELSE endCalls
    /\ IF session = "active"
       THEN /\ session' = "ended"
            /\ endReason' = "Interrupted"
            /\ stale' = (latest_transcript # NoneVal)
       ELSE UNCHANGED <<session, endReason, stale>>
    /\ engine' = engine \ {"main"}
    /\ vpc' = "exited"
    /\ vExitCode' = 1
    /\ UNCHANGED <<latest_transcript, history, handler, mInput, mOut,
                   tpc, tInput, tOut>>
    /\ UNCHANGED <<lastCall, evicted>>
    /\ UNCHANGED <<rpc, rInput>>
    /\ UNCHANGED quitInput
    /\ UNCHANGED bvars
VInterrupt ==
    /\ vpc \in {"prompt", "calling", "waiting"}
    /\ interrupts < MaxInterrupts
    /\ interrupts' = interrupts + 1
    /\ endCalls' = IF handler THEN endCalls + 1 ELSE endCalls
    /\ IF session = "active"
       THEN /\ session' = "ended"
            /\ endReason' = "Interrupted"
            /\ stale' = (latest_transcript # NoneVal)
       ELSE UNCHANGED <<session, endReason, stale>>
    /\ engine' = engine \ {"main"}
    /\ vpc' = "prompt"
    /\ UNCHANGED <<vExitCode, latest_transcript, history, handler, mInput, mOut,
                   tpc, tInput, tOut>>
    /\ UNCHANGED <<lastCall, evicted>>
    /\ UNCHANGED <<rpc, rInput>>
    /\ UNCHANGED quitInput
    /\ UNCHANGED bvars

(***************************************************************************)
(* The voice provider's threads, while a session is active.                *)
(***************************************************************************)
\* callback_user_transcript = conversation_manager.update_transcript
VUpdateTranscript ==
    /\ session = "active"
    /\ \E t \in Transcripts : latest_transcript' = t
    /\ stale' = FALSE
    /\ UNCHANGED <<vpc, vExitCode, history, session, endReason, endCalls,
                   handler, mInput, mOut, tpc, tInput, tOut, engine, interrupts>>
    /\ UNCHANGED <<lastCall, evicted>>
    /\ UNCHANGED <<rpc, rInput>>
    /\ UNCHANGED quitInput
    /\ UNCHANGED bvars

\* The provider asks for the client tool: the tool thread enters
\* call_coral_agent with the parameters dict, up to the start of ainvoke.
VToolCallBegin ==
    /\ session = "active"
    /\ tpc = "idle"
    /\ \E p \in ToolParams :
          LET chosen == SelectInput(FromDict(p), latest_transcript)
          IN  /\ lastCall' = CallRecord(p, latest_transcript, stale, chosen)
              /\ IF chosen = NoneVal
                 THEN /\ tOut' = NoInputSentinel
                      /\ UNCHANGED <<tpc, tInput, engine>>
                 ELSE /\ tInput' = chosen
                      /\ engine' = engine \cup {"tool"}
                      /\ tpc' = "invoking"
                      /\ UNCHANGED tOut
    /\ UNCHANGED <<vpc, vExitCode, latest_transcript, history, session,
                   endReason, endCalls, handler, mInput, mOut, interrupts>>
    /\ UNCHANGED <<stale, evicted>>
    /\ UNCHANGED <<rpc, rInput>>
    /\ UNCHANGED quitInput
    /\ UNCHANGED bvars

\* The tool thread's ainvoke returns, whether or not the session still runs.
VToolCallReturns ==
    /\ tpc = "invoking"
    /\ \E out \in EngineOutputs : tOut' = out
    /\ history' = DequeAppend(history, tInput.s)
    /\ evicted' = Dropped(history, evicted)
    /\ engine' = engine \ {"tool"}
    /\ tpc' = "idle"
    /\ UNCHANGED <<vpc, vExitCode, latest_transcript, session, endReason,
                   endCalls, handler, mInput, mOut, tInput, interrupts>>
    /\ UNCHANGED <<stale, lastCall>>
    /\ UNCHANGED <<rpc, rInput>>
    /\ UNCHANGED quitInput
    /\ UNCHANGED bvars

\* The tool thread's ainvoke raises.
VToolCallRaises ==
    /\ tpc = "invoking"
    /\ tOut' = EngineErrorOutput
    /\ engine' = engine \ {"tool"}
    /\ tpc' = "idle"
    /\ UNCHANGED <<vpc, vExitCode, latest_transcript, history, session,
                   endReason, endCalls, handler, mInput, mOut, tInput, interrupts>>
    /\ UNCHANGED <<stale, lastCall, evicted>>
    /\ UNCHANGED <<rpc, rInput>>
    /\ UNCHANGED quitInput
    /\ UNCHANGED bvars

(***************************************************************************)
(* coral_agent.py run as a program: CoralAgent() and CoralAgent.run.       *)
(***************************************************************************)
\* What the operator types at run's prompt.
RunInputs == {"", "   ", " click store ", "scroll down"}

\* agent = CoralAgent(): _initialize raises SystemExit when it fails.
RunStartup ==
    /\ vpc = "startup"
    /\ rpc = "startup"
    /\ \E initOk \in BOOLEAN :
          IF initOk
          THEN rpc' = "input" /\ vExitCode' = 0
          ELSE rpc' = "exited" /\ vExitCode' = 1
    /\ UNCHANGED <<vpc, latest_transcript, history, session, endReason, endCalls,
                   handler, mInput, mOut, tpc, tInput, tOut, engine, interrupts,
                   stale, lastCall, evicted, rInput>>
    /\ UNCHANGED quitInput
    /\ UNCHANGED bvars

\* input_query = input("Input: "); a blank line is skipped, anything else goes
\* to agent_executor.ainvoke as typed.
RunInput ==
    /\ rpc = "input"
    /\ \E raw \in RunInputs :
          IF Strip(raw) = ""
          THEN UNCHANGED <<rpc, rInput>>
          ELSE rInput' = raw /\ rpc' = "invoking"
    /\ UNCHANGED <<vpc, vExitCode, latest_transcript, history, session, endReason,
                   endCalls, handler, mInput, mOut, tpc, tInput, tOut, engine,
                   interrupts, stale, lastCall, evicted>>
    /\ UNCHANGED quitInput
    /\ UNCHANGED bvars

\* ainvoke returns: self.history.append(input_query), then the two sleeps.
RunInvokeReturns ==
    /\ rpc = "invoking"
    /\ history' = DequeAppend(history, rInput)
    /\ evicted' = Dropped(history, evicted)
    /\ rpc' = "input"
    /\ UNCHANGED <<vpc, vExitCode, latest_transcript, session, endReason,
                   endCalls, handler, mInput, mOut, tpc, tInput, tOut, engine,
                   interrupts, stale, lastCall, rInput>>
    /\ UNCHANGED quitInput
    /\ UNCHANGED bvars

\* ainvoke raises: except Exception logs and sleeps.
RunInvokeRaises ==
    /\ rpc = "invoking"
    /\ rpc' = "input"
    /\ UNCHANGED <<vpc, vExitCode, latest_transcript, history, session, endReason,
                   endCalls, handler, mInput, mOut, tpc, tInput, tOut, engine,
                   interrupts, stale, lastCall, evicted, rInput>>
    /\ UNCHANGED quitInput
    /\ UNCHANGED bvars

\* SIGINT: except KeyboardInterrupt breaks the loop and the process ends with
\* status 0, or asyncio.run cancels run() and ends with KeyboardInterrupt
\* (status 130), depending on the Python version.
RunInterrupt ==
    /\ rpc \in {"input", "invoking"}
    /\ rpc' = "exited"
    /\ \E code \in {0, 130} : vExitCode' = code
    /\ UNCHANGED <<vpc, latest_transcript, history, session, endReason, endCalls,
                   handler, mInput, mOut, tpc, tInput, tOut, engine, interrupts,
                   stale, lastCall, evicted, rInput>>
    /\ UNCHANGED quitInput
    /\ UNCHANGED bvars

VNext ==
    \/ VStartup
    \/ VReadInput
    \/ VCallReturns
    \/ VCallRaises
    \/ VStartVoice
    \/ VSessionCompleted
    \/ VTimeout
    \/ VSessionError
    \/ VInterrupt
    \/ VUpdateTranscript
    \/ VToolCallBegin
    \/ VToolCallReturns
    \/ VToolCallRaises
    \/ RunStartup
    \/ RunInput
    \/ RunInvokeReturns
    \/ RunInvokeRaises
    \/ RunInterrupt

SpecVoice == Init /\ [][VNext]_vars

\* asyncio.wait_for(..., timeout=120): the deadline of a session that is still
\* waiting does pass.
FairSpecVoice == SpecVoice /\ WF_vars(VTimeout)

(***************************************************************************)
(* Properties of the Browser Agent's loop.                                 *)
(***************************************************************************)
\* The iteration begun by the latest poll is over: control is back at the top
\* of the loop and the next poll has not been issued.
IterationDone == pc = "idle"

\* The latest poll's answer was read as "No new messages": it is a str that
\* holds that text.
ReadAsNoNewMessages ==
    /\ mentions_response.isStr
    /\ \/ mentions_response.kind = "sentinel"
       \/ \E i \in 1..Len(mentions_response.msgs) :
             mentions_response.msgs[i].content = StrVal("say No new messages")

\* The latest poll answered with a batch that was not read as "No new
\* messages" and whose first message has a threadId, so the loop took that
\* message (message = messages[0]).
LeadTaken ==
    /\ mentions_response.kind = "batch"
    /\ ~ReadAsNoNewMessages
    /\ mentions_response.msgs # <<>>
    /\ Truthy(mentions_response.msgs[1].threadId)

\* The first message of the latest batch.
PolledLead == mentions_response.msgs[1]

\* Some field of the message is absent or empty.
FieldMissing(m) ==
    ~Truthy(m.threadId) \/ ~Truthy(m.senderId) \/ ~Truthy(m.content)

\* C1: always-respond: for every lead message the loop takes from a poll,
\* send_message has been called exactly once when the iteration is over.
C1_AlwaysRespond ==
    (IterationDone /\ LeadTaken) => Len(sent) = 1

\* C2: when dispatch of a valid message fails, a non-empty error reply is
\* sent to the originating thread, mentioning the original sender.
C2_DispatchFailureReplied ==
    (IterationDone /\ faultAt = "dispatch") =>
        /\ Len(sent) = 1
        /\ sent[1].content # ""
        /\ sent[1].threadId = message.threadId
        /\ sent[1].mentions = <<message.senderId>>

ReplyAttempted ==
    /\ ndispatch = 1
    /\ faultAt # "dispatch"
    /\ pc \in {"sleep", "fault", "idle"}

\* C4: for every valid lead message whose dispatch returns normally, the
\* single reply of the iteration goes to the inbound threadId, mentions
\* exactly the inbound senderId, and carries the string form of the result.
C4_ReplyMatchesInbound ==
    (LeadTaken /\ ~FieldMissing(PolledLead) /\ ReplyAttempted) =>
        sent = <<[threadId |-> PolledLead.threadId,
                  content  |-> IF browser_result.tag = "none"
                               THEN "None" ELSE browser_result.s,
                  mentions |-> <<PolledLead.senderId>>]>>

C4_Witness ==
    /\ LeadTaken /\ ~FieldMissing(PolledLead) /\ ReplyAttempted
    /\ IterationDone
    /\ browser_result = NoneVal
    /\ Len(mentions_response.msgs) = 2
    /\ mentions_response.isStr
    /\ sent = <<[threadId |-> StrVal("t1"), content |-> "None",
                 mentions |-> <<StrVal("a1")>>]>>

\* C5: whenever a poll returns the "No new messages" sentinel, the iteration
\* performs no dispatch and no send_message and sleeps exactly one
\* SLEEP_INTERVAL before the next poll.
C5_NoMessagesOnlySleeps ==
    (mentions_response.kind = "sentinel") =>
        /\ ndispatch = 0
        /\ inflight = 0
        /\ sent = <<>>
        /\ IterationDone => slept = <<SLEEP_INTERVAL>>

C5_Witness ==
    /\ mentions_response.kind = "sentinel"
    /\ pc = "idle"
    /\ slept = <<SLEEP_INTERVAL>>
    /\ sent = <<>>

\* C6: after a reply attempt the loop always sleeps one interval before it is
\* back at polling, whether the send succeeded or failed.
C6_SleepAfterReply ==
    (IterationDone /\ Len(sent) >= 1) => slept = <<SLEEP_INTERVAL>>

\* C7: whenever an exception is raised in an iteration, the loop sleeps a
\* backoff interval before the next poll is issued.
C7_BackoffAfterFault ==
    (IterationDone /\ faultAt # "") => slept # <<>>

\* C8: once the loop has started it is never exited, and after any failure
\* of an iteration another poll is eventually issued.
C8_LoopNeverExits ==
    /\ [][pc \notin {"startup", "exited"} => pc' # "exited"]_vars
    /\ (pc = "fault") ~> (pc = "polling")

C8_Witness ==
    /\ pc = "polling"
    /\ faultAt = "dispatch"
    /\ step = 1

\* C9: when a poll returns several messages only the first is acted upon: at
\* most one dispatch and one reply happen in the iteration, the query is the
\* first message's content and the reply goes to the first message's thread
\* and sender.
C9_OnlyLeadActedUpon ==
    (mentions_response.kind = "batch" /\ Len(mentions_response.msgs) >= 2) =>
        /\ ndispatch <= 1
        /\ Len(sent) <= 1
        /\ ndispatch = 1 => query = PolledLead.content
        /\ Len(sent) = 1 =>
              /\ sent[1].threadId = PolledLead.threadId
              /\ sent[1].mentions = <<PolledLead.senderId>>

C9_Witness ==
    /\ IterationDone
    /\ Len(mentions_response.msgs) = 2
    /\ mentions_response.msgs[2] # mentions_response.msgs[1]
    /\ ndispatch = 1
    /\ query = PolledLead.content
    /\ Len(sent) = 1

(***************************************************************************)
(* Properties of the Voice Agent.                                          *)
(***************************************************************************)
\* C10: at any time at most one engine invocation is in flight per agent
\* process: a call_coral_agent invocation of the tool thread never overlaps
\* another one, voice- or text-triggered.
C10_SingleDispatchInFlight ==
    /\ inflight <= 1
    /\ Cardinality(engine) <= 1

\* C16: the step counter is 0 when the process starts and no step of the
\* loop makes it smaller.
C16_StepNeverDecreases ==
    /\ (pc = "startup" => step = 0)
    /\ [][step' >= step]_vars

\* A dispatch succeeded, a later one raised, and the loop went on.
C16_Witness ==
    /\ step = 1
    /\ dispatched = 2
    /\ faultAt = "dispatch"
    /\ pc = "idle"

\* C19: replies are emitted in dispatch order: whenever a message is being
\* dispatched, the replies to all the messages dispatched before it have been
\* sent, in the order of their dispatch.
C19_RepliesInDispatchOrder ==
    (pc = "dispatching") =>
        /\ Len(replied) = dispatched - 1
        /\ \A i \in 1..Len(replied) : replied[i] = i

\* C22: every send_message call of the loop has a non-empty threadId and
\* mentions exactly one, non-empty sender.
C22_SendsAreAddressed ==
    \A i \in 1..Len(sent) :
        /\ Truthy(sent[i].threadId)
        /\ Len(sent[i].mentions) = 1
        /\ Truthy(sent[i].mentions[1])

\* The positions of main.py's loop.
MainLoop ==
    {"idle", "polling", "polled", "notify", "dispatch", "dispatching",
     "replying", "sleep", "fault"}

\* C23: step grows by exactly 1 when process_agent_query returns, before the
\* reply is sent, and no other step of the loop changes it; the step handed to
\* a dispatch is the number of earlier dispatches that returned.
C23_StepCountsReturnedDispatches ==
    /\ [](pc = "dispatching" => stepArg = Len(replied))
    /\ [](pc = "replying" => step = Len(replied) + 1)
    /\ [][(pc \in MainLoop) =>
            (IF pc = "dispatching" /\ pc' = "replying"
             THEN step' = step + 1
             ELSE step' = step)]_vars

\* A dispatch returned and its reply went out; the next dispatch is handed
\* step 1.
C23_Witness ==
    /\ pc = "dispatching"
    /\ stepArg = 1
    /\ dispatched >= 2
    /\ replied # <<>>

\* C24: process_browsing_tools returns in every case: status "success" with
\* the result and the input step plus 1 when process_agent_query returned,
\* status "error" with a non-empty message and no step when it raised, and an
\* error value without a call of process_agent_query when the agent chain or
\* the session is missing.
C24_ToolNeverRaises ==
    toolCall.made =>
        IF ~toolCall.chain \/ ~toolCall.session
        THEN /\ ~toolCall.invoked
             /\ "error" \in DOMAIN toolCall.ret
             /\ toolCall.ret.error # ""
        ELSE IF toolCall.raised
        THEN /\ toolCall.ret.status = "error"
             /\ toolCall.ret.message # ""
             /\ "step" \notin DOMAIN toolCall.ret
        ELSE /\ toolCall.ret.status = "success"
             /\ toolCall.ret.result = toolCall.result
             /\ toolCall.ret.step = toolCall.step + 1

\* The tool was called with step 1 and process_agent_query returned None.
C24_Witness ==
    /\ toolCall.made
    /\ toolCall.invoked
    /\ ~toolCall.raised
    /\ toolCall.step = 1
    /\ toolCall.result = NoneVal

\* The latest poll answered with an empty batch or with one whose first
\* message has no threadId.
SkippedBatch ==
    /\ mentions_response.kind = "batch"
    /\ \/ mentions_response.msgs = <<>>
       \/ ~Truthy(mentions_response.msgs[1].threadId)

\* C26: after an empty batch or a lead message without threadId the iteration
\* makes no dispatch and no send_message call, sleeps SLEEP_INTERVAL once, and
\* the loop polls again.
C26_SkippedBatchOnlySleeps ==
    /\ []((IterationDone /\ SkippedBatch) =>
             /\ ndispatch = 0
             /\ sent = <<>>
             /\ slept = <<1>>)
    /\ (pc = "polled" /\ SkippedBatch) ~> (pc = "polling")

\* A payload (not a str) whose first message has an empty threadId was
\* skipped with one sleep.
C26_Witness ==
    /\ IterationDone
    /\ ~mentions_response.isStr
    /\ mentions_response.kind = "batch"
    /\ mentions_response.msgs # <<>>
    /\ mentions_response.msgs[1].threadId = StrVal("")
    /\ slept = <<1>>

\* C28: in main.py's loop tool_result and last_tool_call keep their initial
\* value None, so every dispatch is handed None for both.
C28_ToolResultNeverChanges ==
    (pc \in MainLoop) => (tool_result = NoneVal /\ last_tool_call = NoneVal)

\* A second dispatch, after a first one returned a result.
C28_Witness ==
    /\ pc = "dispatching"
    /\ step = 1
    /\ tool_result = NoneVal
    /\ last_tool_call = NoneVal

\* C30: in test.py's loop an invocation that returns adds 1 to step and one
\* that raises leaves step alone, nothing else changes step, and either way
\* the loop sleeps its SLEEP_INTERVAL (2 s) once before the next invocation.
C30_TestLoopSleepsAndCounts ==
    /\ []((pc = "t_idle" /\ (step > 0 \/ faultAt = "invoke")) => slept = <<2>>)
    /\ [][(pc \in {"t_idle", "t_invoking", "t_sleep"}) =>
            (IF pc = "t_invoking" /\ pc' = "t_sleep" /\ faultAt' = ""
             THEN step' = step + 1
             ELSE step' = step)]_vars

\* One invocation returned and the next one raised; the loop has slept and is
\* about to invoke again.
C30_Witness ==
    /\ pc = "t_idle"
    /\ step = 1
    /\ faultAt = "invoke"
    /\ slept = <<2>>

\* C11: a voice session that reaches its 120 s deadline becomes
\* Ended(TimedOut), and end_session is called at most once for that session,
\* whatever an operator interrupt does before or after the timeout.
C11_EndSessionAtMostOnce ==
    (endReason = "TimedOut") => (session = "ended" /\ endCalls <= 1)

\* C12: an operator interrupt that arrives while a voice session is active
\* calls end_session, makes the session Ended(Interrupted) and returns main()
\* to the prompt; no interrupt ends the process.
C12_InterruptEndsSession ==
    [][(interrupts' = interrupts + 1) =>
          /\ vpc' = "prompt"
          /\ vExitCode' = vExitCode
          /\ (session = "active") =>
                /\ endCalls' = endCalls + 1
                /\ session' = "ended"
                /\ endReason' = "Interrupted"]_vars

C12_Witness ==
    /\ session = "ended"
    /\ endReason = "Interrupted"
    /\ endCalls = 1
    /\ interrupts = 1
    /\ vpc = "prompt"

\* C17: voice mode and text mode exclude each other: while a voice session is
\* active main() waits inside run_voice_session, reads no text query and has
\* no text-triggered query in the engine.
C17_VoiceExcludesText ==
    (session = "active") => (vpc = "waiting" /\ "main" \notin engine)

\* A voice session is active after the text loop has answered a query.
C17_Witness ==
    /\ session = "active"
    /\ vpc = "waiting"
    /\ mOut \in EngineOutputs
    /\ history # <<>>

\* C18: when a required configuration variable is missing, the process ends
\* with a non-zero status without entering its loop.
C18_MissingConfigFails ==
    [][(vpc = "startup" /\ vpc' = "exited") => vExitCode' # 0]_vars

\* A value that is a string with something other than whitespace in it.
NonBlank(v) == v.tag = "str" /\ Strip(v.s) # ""

\* C13: call_coral_agent takes as its query the text argument when that is
\* non-blank (without its surrounding whitespace); otherwise the latest
\* recognised transcript when that is non-blank; otherwise it returns "Error: No
\* valid input or transcript available" and does not invoke the engine.
C13_QuerySelection ==
    lastCall.made =>
        IF NonBlank(lastCall.arg)
        THEN lastCall.invoked /\ lastCall.query = StrVal(Strip(lastCall.arg.s))
        ELSE IF NonBlank(lastCall.latest)
             THEN /\ lastCall.invoked
                  /\ lastCall.query = StrVal(Strip(lastCall.latest.s))
             ELSE /\ ~lastCall.invoked
                  /\ lastCall.ret = "Error: No valid input or transcript available"

\* A call without a text argument took the transcript, and the engine is
\* working on it.
C13_Witness ==
    /\ lastCall.made
    /\ lastCall.arg = NoneVal
    /\ lastCall.latest = StrVal(" scroll down ")
    /\ lastCall.invoked
    /\ tInput = StrVal("scroll down")
    /\ "tool" \in engine

\* C14: the history never holds more than 3 queries; an append to a full
\* history drops exactly its oldest entry, and the entries that stay keep their
\* order, the new query last.
C14_BoundedHistory ==
    /\ [](Len(history) <= 3)
    /\ [][history' # history =>
            IF Len(history) < 3
            THEN /\ Len(history') = Len(history) + 1
                 /\ SubSeq(history', 1, Len(history)) = history
            ELSE /\ Len(history') = 3
                 /\ SubSeq(history', 1, 2) = SubSeq(history, 2, 3)
                 /\ evicted' = StrVal(history[1])]_vars

\* A fourth query was appended to a history of three different-looking
\* entries, and the oldest went.
C14_Witness ==
    /\ evicted = StrVal("click store")
    /\ history = <<"scroll down", "click store", "scroll down">>

\* C15: the history changes only when a call's dispatch has returned, and then
\* by the append of that call's query: a dispatch that raises, a call that
\* returns the no-valid-input sentinel and a blank text input leave it as it was.
C15_HistoryOnlyOnSuccess ==
    [][history' # history =>
          \/ /\ vpc = "calling"
             /\ vpc' = "prompt"
             /\ mOut' \in EngineOutputs
             /\ history' = DequeAppend(history, mInput.s)
          \/ /\ tpc = "invoking"
             /\ tpc' = "idle"
             /\ tOut' \in EngineOutputs
             /\ history' = DequeAppend(history, tInput.s)
          \/ /\ rpc = "invoking"
             /\ rpc' = "input"
             /\ history' = DequeAppend(history, rInput)]_vars

\* One query went through, then a text query's dispatch raised and a voice
\* call found no input: the history still holds the one query.
C15_Witness ==
    /\ mOut = EngineErrorOutput
    /\ tOut = NoInputSentinel
    /\ history = <<"click store">>
    /\ vpc = "prompt"

\* C20: a transcript recognised in a session that has ended is never the query
\* of a later call_coral_agent call.
C20_NoStaleTranscript ==
    ~(/\ lastCall.made
      /\ lastCall.stale
      /\ ~NonBlank(lastCall.arg)
      /\ lastCall.invoked
      /\ lastCall.query = StrVal(Strip(lastCall.latest.s)))

\* C21: every voice session that is started reaches Ended with one reason
\* among Completed, TimedOut, Interrupted and Errored, and main() is then at the
\* prompt; when the reason is TimedOut or Errored end_session has been called
\* on the way, when it is Completed it has not.
C21_SessionReachesEnded ==
    /\ [](session = "active" => endReason = "")
    /\ [](session = "ended" =>
             endReason \in {"Completed", "TimedOut", "Interrupted", "Errored"})
    /\ [][(session = "active" /\ session' = "ended") =>
             /\ vpc' = "prompt"
             /\ (endReason' \in {"TimedOut", "Errored"}) =>
                    endCalls' = endCalls + 1
             /\ (endReason' = "Completed") => endCalls' = endCalls]_vars
    /\ (session = "active") ~> (session = "ended" /\ vpc = "prompt")

\* A session completed on the provider's side, without end_session.
C21_Witness ==
    /\ session = "ended"
    /\ endReason = "Completed"
    /\ endCalls = 0
    /\ vpc = "prompt"
    /\ latest_transcript # NoneVal

\* C25: when agent_executor.ainvoke raises in a text query's call,
\* call_coral_agent returns the string "Error in CoralAgent: " followed by the
\* exception's text, and main() goes on to the next prompt.
C25_EngineFailureSurfaced ==
    [][(/\ vpc = "calling"
        /\ vpc' # "calling"
        /\ interrupts' = interrupts
        /\ mOut' \notin {"Done", "No response from CoralAgent"}) =>
          /\ mOut' = "Error in CoralAgent: engine failed"
          /\ vpc' = "prompt"
          /\ vExitCode' = vExitCode]_vars

\* The first text query failed in the engine and main() is back at the prompt.
C25_Witness ==
    /\ vpc = "prompt"
    /\ mOut = "Error in CoralAgent: engine failed"
    /\ lastCall.made
    /\ lastCall.arg = StrVal("click store")
    /\ history = <<>>
    /\ session = "none"

\* C27: end_session is not called on a session that has ended: once main() is
\* back in text mode after a session, no step calls it.
C27_NoEndSessionAfterEnded ==
    [][(session = "ended" /\ vpc \in {"prompt", "calling"}) =>
          endCalls' = endCalls]_vars

\* C29: main()'s loop ends only on the input 'quit', in any letter case: no
\* interrupt and no exception of a text query or a voice session ends it.
C29_OnlyQuitEndsLoop ==
    [][(vpc \in {"prompt", "calling", "voice_init", "waiting"}
            /\ vpc' = "exited") =>
          /\ vpc = "prompt"
          /\ quitInput' \in {StrVal("quit"), StrVal("QUIT")}
          /\ vExitCode' = 0]_vars

\* The loop ended on QUIT after an interrupt and a failed voice session.
C29_Witness ==
    /\ vpc = "exited"
    /\ quitInput = StrVal("QUIT")
    /\ interrupts = 1
    /\ endReason = "Errored"

====
